---- MODULE Spec2Model ----
(***************************************************************************)
(* Model of the generation pipeline of aiappsy/web-studio-clean.           *)
(*                                                                         *)
(* PipelineRunner (src/lib/security.ts) drives a PipelineExecution through *)
(* its agents.  JavaScript runs each stretch of code between two awaits    *)
(* atomically, so one action of the model is one such stretch: a call of   *)
(* run() up to its first await, the resumption after the awaited           *)
(* agent.execute(), the resumption after the retry back-off timer, and a   *)
(* call of cancel().                                                       *)
(***************************************************************************)
EXTENDS Integers, Sequences, FiniteSets, TLC

(* ------------------------------ bounds -------------------------------- *)
\* largest number of agents configured in an execution
MaxAgents == 2
\* largest agent.maxRetries an execution is configured with
MaxRetries == 2
\* number of times run() is invoked on one PipelineRunner
MaxRuns == 2
\* largest tokensUsed one agent response reports
MaxTokens == 1
\* largest number of steps in a pipeline handed to runAgentPipeline
MaxSteps == 2
\* largest number of content fragments a server streams
MaxFrames == 2
\* largest maxRetries / retries a retry wrapper is called with
MaxWrapperRetries == 3
\* number of jobs added to a DeploymentQueue
MaxJobs == 4
\* number of calls of DeploymentQueue.cancelJob
MaxCancels == 1
\* largest monthlyTokenLimit of a BYOK configuration, and largest maxTokens
MaxTokenLimit == 3
\* largest number of usageTracking rows of one user in one month
MaxRows == 3
\* largest windowMs and largest limit rateLimit is called with
MaxWindow == 2
MaxLimit == 2
\* latest time, in milliseconds, and number of calls of rateLimit
MaxTime == 4
MaxCalls == 5
\* number of calls of withConcurrency
MaxOperations == 3

VARIABLES
    execution,  \* PipelineRunner.execution : PipelineExecution
    calls,      \* the invocations of run(): where each is suspended, and its local i
    dispatch,   \* what getAgentInstance does: "stub" (as written) or "implemented"
    pipeline,   \* one call of AgentRunner.runAgentPipeline: its argument and locals
    executionHistory, \* AgentRunner.executionHistory: agent name -> results
    retry,      \* one call of a retry wrapper: its arguments, locals and position
    stream,     \* one call of a streaming completion function and its transport
    fullPipeline, \* one call of AgentRunner.runFullPipeline (src/agents/runner.ts)
    tracker,    \* a TokenTracker and the runs that record their usage in it
    agentStep,  \* one call of executeWithOpenRouter / runAgent: pending or its result
    agentContext,   \* the agents of the agentRunner singleton and the requests using them
    deploymentQueue, \* a DeploymentQueue (src/lib/builder/builder-engine.ts)
    exportWorker,   \* an ExportWorker (src/lib/export-manager.ts)
    byok,           \* BYOKManager's usage records and the calls of callAI
    requestBuckets, \* requestBuckets of src/lib/security.ts, the clock, the calls made
    concurrency     \* runningRef of one useConcurrency hook and its calls

runnerVars == <<execution, calls, dispatch>>
pipelineVars == <<pipeline, executionHistory>>
retryVars == <<retry, agentStep>>
serviceVars == <<agentContext, deploymentQueue, exportWorker, byok, requestBuckets,
                concurrency>>
clientVars == <<retryVars, stream, fullPipeline, tracker, serviceVars>>
coreVars == <<runnerVars, pipelineVars>>
besidesRetry == <<coreVars, stream, fullPipeline, tracker, serviceVars>>
besidesStream == <<coreVars, retryVars, fullPipeline, tracker, serviceVars>>
besidesFullPipeline == <<coreVars, retryVars, stream, tracker, serviceVars>>
besidesTracker == <<coreVars, retryVars, stream, fullPipeline, serviceVars>>
generationVars == <<coreVars, retryVars, stream, fullPipeline, tracker>>
besidesAgentContext == <<generationVars, deploymentQueue, exportWorker, byok,
                        requestBuckets, concurrency>>
besidesDeploymentQueue == <<generationVars, agentContext, exportWorker, byok,
                           requestBuckets, concurrency>>
besidesExportWorker == <<generationVars, agentContext, deploymentQueue, byok,
                        requestBuckets, concurrency>>
besidesByok == <<generationVars, agentContext, deploymentQueue, exportWorker,
                requestBuckets, concurrency>>
besidesRateLimit == <<generationVars, agentContext, deploymentQueue, exportWorker, byok,
                     concurrency>>
besidesConcurrency == <<generationVars, agentContext, deploymentQueue, exportWorker, byok,
                       requestBuckets>>
vars == <<execution, calls, dispatch, pipeline, executionHistory, retry, agentStep,
         stream, fullPipeline, tracker, agentContext, deploymentQueue, exportWorker,
         byok, requestBuckets, concurrency>>

(* ------------------------- PipelineExecution -------------------------- *)
Statuses == {"pending", "running", "completed", "failed", "cancelled"}
Terminal == {"completed", "failed", "cancelled"}
AgentStatuses == {"idle", "running", "completed", "failed"}

\* one element of PipelineExecution.agents after BaseAgentSchema's defaults
NewAgent(maxRetries) ==
    [status |-> "idle", retryCount |-> 0, maxRetries |-> maxRetries,
     error |-> "none", started |-> FALSE, ended |-> FALSE]

\* a PipelineExecution after PipelineExecutionSchema's defaults
NewExecution(agents) ==
    [agents |-> agents, currentStep |-> 0, status |-> "pending",
     output |-> <<>>, progress |-> 0, logs |-> <<>>,
     tokensUsed |-> 0, estimatedCost |-> 0,
     startedAt |-> FALSE, completedAt |-> FALSE]

\* execution.agents.length
NumAgents(ex) == Cardinality(DOMAIN ex.agents)

(* --------------------------- AgentResponse ---------------------------- *)
\* cost of `tokens` tokens in thousandths of the per-1K rate (calculateCost)
calculateCost(tokens) == tokens * 3

\* the values agentInstance.execute(input) resolves with: the concrete agents
\* return their data with the usage of the AI call, or, from their catch
\* block, a failure that carries no data and no usage
AgentResponses ==
    { [success |-> TRUE, data |-> "data", tokensUsed |-> t,
       cost |-> calculateCost(t), thrown |-> FALSE] : t \in 0..MaxTokens }
    \cup { [success |-> FALSE, data |-> "none", tokensUsed |-> 0, cost |-> 0,
            thrown |-> FALSE] }

\* execute(input) rejecting instead of resolving (the abstract method may)
Thrown == [success |-> FALSE, data |-> "none", tokensUsed |-> 0, cost |-> 0,
           thrown |-> TRUE]

ExecuteOutcomes == AgentResponses \cup {Thrown}

(* ------------------------------ helpers ------------------------------- *)
\* PipelineRunner.addLog
addLog(ex, event, step, type) ==
    [ex EXCEPT !.logs = Append(@, [agent |-> "Pipeline", event |-> event,
                                   step |-> step, type |-> type])]

\* PipelineRunner.getAgentInstance: as written it throws for every agent
getAgentInstance(agent) ==
    IF dispatch = "stub" THEN "throws" ELSE "instance"

\* PipelineRunner.prepareAgentInput: the outputs of the steps recorded so far
prepareAgentInput(ex, stepIndex) ==
    [outputs |-> DOMAIN ex.output, step |-> stepIndex, totalSteps |-> NumAgents(ex)]

ShouldRetry_OneTooMany(agent) == agent.retryCount <= agent.maxRetries

\* the retry condition of run()'s inner catch
ShouldRetry(agent) == agent.retryCount < agent.maxRetries

OuterCatch_StatusNotSet(ex) ==
    addLog([ex EXCEPT !.completedAt = TRUE], "pipelineFailed", -1, "error")

\* run()'s outer catch
OuterCatch(ex) ==
    addLog([ex EXCEPT !.status = "failed", !.completedAt = TRUE],
           "pipelineFailed", -1, "error")

\* run() after the for loop
Completed(ex) ==
    addLog([ex EXCEPT !.status = "completed", !.completedAt = TRUE,
                      !.progress = 100],
           "pipelineCompleted", -1, "success")

\* run()'s inner catch for the agent at index i: the result is the execution,
\* where the call is suspended next, and its loop variable
CatchAgentError(ex, i, message) ==
    LET failed == addLog([ex EXCEPT !.agents[i].status = "failed",
                                    !.agents[i].error = message,
                                    !.agents[i].ended = TRUE],
                         "agentFailed", i, "error")
    IN  IF ShouldRetry(ex.agents[i])
        THEN [ex |-> addLog([failed EXCEPT !.agents[i].retryCount = @ + 1,
                                           !.agents[i].status = "idle"],
                            "retry", i, "warning"),
              pc |-> "backoff", i |-> i - 1, input |-> <<>>]
        ELSE [ex |-> OuterCatch(failed), pc |-> "done", i |-> i, input |-> <<>>]

\* the for loop of run() from its condition with loop variable i, up to the
\* next await (or the end of run())
LoopFrom(ex, i) ==
    IF i < NumAgents(ex)
    THEN LET started == addLog([ex EXCEPT !.currentStep = i,
                                          !.progress = (i * 100) \div NumAgents(ex),
                                          !.agents[i].status = "running",
                                          !.agents[i].started = TRUE],
                               "agentStarted", i, "info")
         IN  IF getAgentInstance(started.agents[i]) = "throws"
             THEN CatchAgentError(started, i, "Agent instance not implemented")
             ELSE [ex |-> started, pc |-> "execute", i |-> i,
                   input |-> prepareAgentInput(started, i)]
    ELSE [ex |-> Completed(ex), pc |-> "done", i |-> i, input |-> <<>>]

AddTokens_Assign(total, used) == used

\* execution.tokensUsed += response.tokensUsed
AddTokens(total, used) == total + used

\* the success branch of run() for the agent at index i
RecordSuccess(ex, i, response) ==
    LET done == [ex EXCEPT !.agents[i].status = "completed",
                           !.agents[i].ended = TRUE,
                           !.output = [k \in DOMAIN @ \cup {i} |->
                                          IF k = i THEN response.data ELSE @[k]],
                           !.tokensUsed = AddTokens(@, response.tokensUsed),
                           !.estimatedCost = @ + response.cost]
    IN  [done EXCEPT !.logs = Append(@, [agent |-> "Pipeline",
                                         event |-> "agentCompleted", step |-> i,
                                         type |-> "success",
                                         tokens |-> response.tokensUsed])]

NextIndex_SkipOne(i) == i + 2

\* the loop variable after one pass of the for loop (i++)
NextIndex(i) == i + 1

(* ------------------------------ actions ------------------------------- *)
Suspend(c, r) ==
    /\ execution' = r.ex
    /\ calls' = [calls EXCEPT ![c] = [pc |-> r.pc, i |-> r.i, input |-> r.input]]
    /\ UNCHANGED <<dispatch, pipelineVars, clientVars>>

\* a call of run(), up to its first await (the calls are interchangeable, so
\* they are made in the order of their numbers)
Run(c) ==
    /\ calls[c].pc = "idle"
    /\ \A d \in 1..(c - 1) : calls[d].pc # "idle"
    /\ Suspend(c, LoopFrom([execution EXCEPT !.status = "running",
                                             !.startedAt = TRUE], 0))

\* await agentInstance.execute(input) settles with `response`
ExecuteReturns(c, response) ==
    /\ calls[c].pc = "execute"
    /\ LET i == calls[c].i
       IN  IF response.success /\ ~response.thrown
           THEN Suspend(c, LoopFrom(RecordSuccess(execution, i, response),
                                    NextIndex(i)))
           ELSE Suspend(c, CatchAgentError(execution, i,
                            IF response.thrown THEN "thrown" ELSE "Agent failed"))

\* the back-off timer of the retry fires: continue
BackoffElapsed(c) ==
    /\ calls[c].pc = "backoff"
    /\ Suspend(c, LoopFrom(execution, NextIndex(calls[c].i)))

\* PipelineRunner.cancel
CanCancel(ex) == ex.status = "running"

Cancel ==
    /\ CanCancel(execution)
    /\ execution' = addLog([execution EXCEPT !.status = "cancelled",
                                             !.completedAt = TRUE],
                           "cancelled", -1, "warning")
    /\ UNCHANGED <<calls, dispatch, pipelineVars, clientVars>>


(* ------------------ AgentRunner.runAgentPipeline ---------------------- *)
\* the names in AgentRunner.agents, and a name that is not registered
Registered == {"website-architect", "content-writer"}
AgentNames == Registered \cup {"unregistered"}

\* one element of the pipeline argument; a step without dependsOn behaves as
\* one whose dependsOn is empty
StepConfigs == [agentName : AgentNames, dependsOn : SUBSET Registered]

NewPipeline(steps) ==
    [steps |-> steps, pc |-> "idle", k |-> 0, results |-> <<>>, errors |-> <<>>,
     completedAgents |-> {}, success |-> FALSE]

\* a pipeline call that has not been made: the runner model leaves it alone
NoPipeline == NewPipeline(<<>>)

PushResult_Unshift(results, result) == <<result>> \o results

\* results.push(result)
PushResult(results, result) == Append(results, result)

\* variant for comparison: dependsOn is not looked at
PipelineFrom_NoDependsOn(p, k) ==
    IF k > Len(p.steps)
    THEN [p EXCEPT !.pc = "returned", !.k = k, !.success = (Len(p.errors) = 0)]
    ELSE [p EXCEPT !.pc = "awaiting", !.k = k]

RECURSIVE PipelineFrom(_, _)
\* the for-of loop of runAgentPipeline from the step at position k, up to the
\* await of runAgent (or the return)
PipelineFrom(p, k) ==
    IF k > Len(p.steps)
    THEN [p EXCEPT !.pc = "returned", !.k = k, !.success = (Len(p.errors) = 0)]
    ELSE LET missingDeps == p.steps[k].dependsOn \ p.completedAgents
         IN  IF missingDeps # {}
             THEN PipelineFrom([p EXCEPT !.errors =
                                   Append(@, [kind |-> "depends on", step |-> k])],
                               k + 1)
             ELSE [p EXCEPT !.pc = "awaiting", !.k = k]

\* how runAgent(agentName, ...) can settle: it throws for a name that is not
\* registered, and otherwise returns the agent's result, or an error result
\* when agent.execute throws
RunAgentOutcomes(agentName) ==
    IF agentName \in Registered THEN {"success", "failure", "caught"}
    ELSE {"not found"}

\* a call of runAgentPipeline(steps), up to its first await
RunAgentPipeline ==
    /\ pipeline.pc = "idle"
    /\ pipeline' = PipelineFrom(pipeline, 1)
    /\ UNCHANGED <<runnerVars, executionHistory, clientVars>>

\* await this.runAgent(...) settles for the step at position pipeline.k
RunAgentSettles(outcome) ==
    /\ pipeline.pc = "awaiting"
    /\ outcome \in RunAgentOutcomes(pipeline.steps[pipeline.k].agentName)
    /\ LET k      == pipeline.k
           name   == pipeline.steps[k].agentName
           result == [success |-> outcome = "success", agent |-> name, step |-> k]
           after  == CASE outcome = "success" ->
                            [pipeline EXCEPT !.results = PushResult(@, result),
                                             !.completedAgents = @ \cup {name}]
                        [] outcome = "not found" ->
                            [pipeline EXCEPT !.errors =
                                Append(@, [kind |-> "threw error", step |-> k])]
                        [] OTHER ->
                            [pipeline EXCEPT !.errors =
                                Append(@, [kind |-> "failed", step |-> k])]
       IN  /\ pipeline' = PipelineFrom(after, k + 1)
           /\ executionHistory' =
                 IF outcome = "not found" THEN executionHistory
                 ELSE [executionHistory EXCEPT ![name] = Append(@, result)]
    /\ UNCHANGED <<runnerVars, clientVars>>

(* ---------------------------- retry wrappers -------------------------- *)
(* Three retry wrappers exist: safeRetry (src/utils/safe.ts), withRetry of *)
(* lib/errors (src/unnamed/part_022) and the recursive withRetry of        *)
(* src/unnamed/part_023.  One call of a wrapper is a loop around           *)
(* `await operation()` and `await setTimeout(delay)`; the model has one    *)
(* action per resumption.                                                  *)
Wrappers == {"safeRetry", "withRetry", "withRetry.recursive"}

\* default baseDelay of safeRetry and of withRetry (ms)
DefaultBaseDelay == 1000
\* default maxDelay of safeRetry (ms)
DefaultMaxDelay == 10000
\* default delay of the recursive withRetry (ms)
DefaultDelay == 300
\* the maxDelay safeRetry is called with: one that caps the second back-off,
\* and the default
MaxDelays == {1500, DefaultMaxDelay}

\* what a wrapped operation rejects with: the class of the error, its message
\* (cut into the fragments that String.includes is asked about) and the kind
\* of failure it is
TransportFailure ==
    [name |-> "TypeError", message |-> <<"fetch failed">>, kind |-> "transport"]
ProviderFailure ==
    [name |-> "Error",
     message |-> <<"OpenRouter API error: ", "Internal Server Error">>,
     kind |-> "provider"]
MissingApiKey ==
    [name |-> "Error",
     message |-> <<"OpenRouter API key is required. Set OPENROUTER_API_KEY environment variable.">>,
     kind |-> "auth"]
Unauthorized ==
    [name |-> "Error",
     message |-> <<"[website-architect] LLM request failed (", "401", "): ">>,
     kind |-> "auth"]
InvalidInput ==
    [name |-> "ValidationError", message |-> <<"Invalid input">>,
     kind |-> "validation"]
RateLimited ==
    [name |-> "RateLimitError", message |-> <<"Rate limit exceeded">>,
     kind |-> "client"]
OperationErrors ==
    {TransportFailure, ProviderFailure, MissingApiKey, Unauthorized,
     InvalidInput, RateLimited}

\* error.message.includes(searchString), case-sensitive
includes(message, searchString) ==
    \E n \in DOMAIN message : message[n] = searchString

\* "Don't retry on certain errors": safeRetry looks for four substrings of the
\* message, withRetry tests the class of the error, the recursive withRetry
\* has no such test
DontRetry(wrapper, error) ==
    CASE wrapper = "safeRetry" ->
            \/ includes(error.message, "401")
            \/ includes(error.message, "403")
            \/ includes(error.message, "validation")
            \/ includes(error.message, "invalid")
      [] wrapper = "withRetry" ->
            error.name \in {"ValidationError", "RateLimitError"}
      [] OTHER -> FALSE

IsLastAttempt_OneEarly(wrapper, attempt, maxRetries) ==
    attempt + 1 >= maxRetries

\* `attempt === maxRetries` in the two loops; `retries <= 0` in the recursive
\* wrapper, whose `retries` is the initial one less the calls made so far
IsLastAttempt(wrapper, attempt, maxRetries) ==
    IF wrapper = "withRetry.recursive" THEN maxRetries - attempt <= 0
    ELSE attempt = maxRetries

Min(a, b) == IF a <= b THEN a ELSE b

\* Math.random() * 1000 as setTimeout rounds it: any of 0..999, of which the
\* two ends are kept
Jitter == {0, 999}

\* the delays the wrapper may wait after the failure of attempt `attempt`
BackoffDelays(r, attempt) ==
    CASE r.wrapper = "safeRetry" ->
            {Min(r.baseDelay * 2^attempt, r.maxDelay)}
      [] r.wrapper = "withRetry" ->
            {r.baseDelay * 2^attempt + j : j \in Jitter}
      [] OTHER -> {r.baseDelay}

\* the arguments a wrapper is called with, before its first statement; only
\* safeRetry has a maxDelay
NewRetry(wrapper, maxRetries, baseDelay) ==
    [wrapper |-> wrapper, maxRetries |-> maxRetries, baseDelay |-> baseDelay,
     pc |-> "idle", attempt |-> 0, invocations |-> 0,
     thrown |-> <<>>, delays |-> <<>>]

NewSafeRetry(maxRetries, baseDelay, maxDelay) ==
    [wrapper |-> "safeRetry", maxRetries |-> maxRetries, baseDelay |-> baseDelay,
     maxDelay |-> maxDelay,
     pc |-> "idle", attempt |-> 0, invocations |-> 0,
     thrown |-> <<>>, delays |-> <<>>]

RetryCalls ==
    UNION { {NewSafeRetry(m, DefaultBaseDelay, d) : d \in MaxDelays}
            \cup {NewRetry("withRetry", m, DefaultBaseDelay),
                  NewRetry("withRetry.recursive", m, DefaultDelay)}
            : m \in 0..MaxWrapperRetries }

NoRetry == [pc |-> "none"]
NoStep == [pc |-> "none"]

\* `return await operation()` (or `return await fn()`) is reached: the wrapped
\* operation is invoked
Invoke(r) == [r EXCEPT !.pc = "operation", !.invocations = @ + 1]

\* the catch block of the wrapper, entered with `error`: the outcomes differ
\* in the delay only
Catch(r, error) ==
    LET seen == [r EXCEPT !.thrown = Append(@, error)]
    IN  IF DontRetry(r.wrapper, error)
           \/ IsLastAttempt(r.wrapper, r.attempt, r.maxRetries)
        THEN {[seen EXCEPT !.pc = "thrown"]}
        ELSE {[seen EXCEPT !.pc = "delay", !.delays = Append(@, delay)]
                : delay \in BackoffDelays(r, r.attempt)}

\* the error the wrapper rejects with: the one caught last
PropagatedError(r) == r.thrown[Len(r.thrown)]

(* ----------------------- executeWithOpenRouter ------------------------ *)
(* BaseAgent.executeWithOpenRouter (src/agents/base-agent.ts) and          *)
(* AgentRunner.runAgent (src/lib/agents.ts) await                          *)
(* withTimeout(withRetry(operation), timeoutMs): one timer races the whole *)
(* retry loop.  Whatever is thrown is turned into a result by the catch.   *)
TimedOutMessage == <<"Operation timed out">>

\* the object returned at the end of the try block
SuccessResult(completion) ==
    [success |-> TRUE, data |-> completion.content,
     tokenUsage |-> completion.usage]

\* the object returned by the catch block
FailureResult(message) == [success |-> FALSE, error |-> message]

Completion == [content |-> "content", usage |-> 1]

\* the continuation of `await withTimeout(withRetry(...))` once the retry
\* loop has settled; a step that is not pending (it never was, or the timer
\* won the race) ignores the loop
Settle(s, r) ==
    IF s.pc # "pending" THEN s
    ELSE CASE r.pc = "returned" ->
                [pc |-> "settled", result |-> SuccessResult(Completion)]
           [] r.pc = "thrown" ->
                [pc |-> "settled",
                 result |-> FailureResult(PropagatedError(r).message)]
           [] OTHER -> s

\* a wrapper is called on its own
CallWrapper ==
    /\ retry.pc = "idle"
    /\ agentStep.pc = "none"
    /\ retry' = Invoke(retry)
    /\ UNCHANGED <<agentStep, besidesRetry>>

\* executeWithOpenRouter is called: it calls withRetry, which invokes the
\* operation, and withTimeout, which starts the timer
ExecuteWithOpenRouter ==
    /\ retry.pc = "idle"
    /\ agentStep.pc = "idle"
    /\ retry' = Invoke(retry)
    /\ agentStep' = [pc |-> "pending"]
    /\ UNCHANGED besidesRetry

\* the awaited operation resolves
OperationResolves ==
    /\ retry.pc = "operation"
    /\ retry' = [retry EXCEPT !.pc = "returned"]
    /\ agentStep' = Settle(agentStep, retry')
    /\ UNCHANGED besidesRetry

\* the awaited operation rejects with `error`
OperationRejects(error) ==
    /\ retry.pc = "operation"
    /\ retry' \in Catch(retry, error)
    /\ agentStep' = Settle(agentStep, retry')
    /\ UNCHANGED besidesRetry

\* the back-off timer fires: the loop goes round (attempt++) and invokes the
\* operation again
DelayElapsed ==
    /\ retry.pc = "delay"
    /\ retry' = Invoke([retry EXCEPT !.attempt = @ + 1])
    /\ UNCHANGED <<agentStep, besidesRetry>>

\* the timer of withTimeout fires while the retry loop has not settled: the
\* race rejects, the catch block returns; nothing stops the loop
TimeoutElapsed ==
    /\ agentStep.pc = "pending"
    /\ agentStep' = [pc |-> "settled", result |-> FailureResult(TimedOutMessage)]
    /\ UNCHANGED <<retry, besidesRetry>>

(* ------------------------ streaming completions ----------------------- *)
(* BaseAgent.run (src/agents/website-architect.ts) and                     *)
(* OpenRouterClient.createStreamingCompletion (src/unnamed/part_025) post  *)
(* the request and read the body of the response with reader.read() until  *)
(* it reports done.  The server sends one `data: {...}` line per content   *)
(* fragment and then `data: [DONE]`; the transport hands the bytes over in  *)
(* reads whose boundaries need not be line boundaries.                     *)
StreamingFunctions == {"BaseAgent.run", "createStreamingCompletion"}

\* the content fragments a server sends
Fragments == {"Hel", "lo"}

\* the lines a read can hold, as the code looks at them: does the line start
\* with "data:", and what is behind it
ContentLine(fragment) ==
    [startsWithData |-> TRUE, payload |-> [text |-> "json", content |-> fragment]]
DoneLine == [startsWithData |-> TRUE, payload |-> [text |-> "[DONE]"]]
\* the two pieces of a line that was cut by the end of a read
HeadOfLine == [startsWithData |-> TRUE, payload |-> [text |-> "cut"]]
TailOfLine == [startsWithData |-> FALSE, payload |-> [text |-> "cut"]]

\* what the server sends: the fragments, and the sentinel unless the stream
\* breaks off before it
FragmentSeqs == UNION { [1..m -> Fragments] : m \in 0..MaxFrames }
Frames(fs) == [n \in 1..Len(fs) |-> ContentLine(fs[n])]
ServerStreams ==
    {Frames(fs) : fs \in FragmentSeqs}
        \cup {Append(Frames(fs), DoneLine) : fs \in FragmentSeqs}

\* one call, before its first statement
NewStream(fn, apiKey, frames) ==
    [fn |-> fn, apiKey |-> apiKey, pc |-> "idle",
     frames |-> frames, cut |-> FALSE, delivered |-> <<>>,
     fullText |-> "", tokens |-> <<>>]

NoStream == [pc |-> "none"]

\* JSON.parse(payload) succeeds
Parses(payload) == payload.text = "json"

\* the callback of BaseAgent.run: onToken({ token: delta, fullText })
OnToken(st, delta) ==
    [st EXCEPT !.fullText = @ \o delta,
               !.tokens = Append(@, [token |-> delta, fullText |-> st.fullText \o delta])]

\* the callback of createStreamingCompletion: onChunk(content)
OnChunk(st, content) ==
    [st EXCEPT !.fullText = @ \o content,
               !.tokens = Append(@, [token |-> content])]

\* the body of `for (const rawLine of lines)` in BaseAgent.run
RunLine(st, line) ==
    IF ~line.startsWithData THEN st
    ELSE IF line.payload.text \in {"", "[DONE]"} THEN st
    ELSE IF ~Parses(line.payload) THEN st
    ELSE IF Len(line.payload.content) > 0 THEN OnToken(st, line.payload.content)
    ELSE st

RECURSIVE RunLines(_, _)
RunLines(st, lines) ==
    IF lines = <<>> THEN st
    ELSE RunLines(RunLine(st, Head(lines)), Tail(lines))

\* `for (const line of lines)` in createStreamingCompletion: `break` at the
\* sentinel leaves the for loop (not the while loop), a line that does not
\* parse is skipped
RECURSIVE ClientLines(_, _)
ClientLines(st, lines) ==
    IF lines = <<>> THEN st
    ELSE LET line == Head(lines)
         IN  IF ~line.startsWithData THEN ClientLines(st, Tail(lines))
             ELSE IF line.payload.text = "[DONE]" THEN st
             ELSE IF ~Parses(line.payload) THEN ClientLines(st, Tail(lines))
             ELSE IF Len(line.payload.content) > 0
                  THEN ClientLines(OnChunk(st, line.payload.content), Tail(lines))
             ELSE ClientLines(st, Tail(lines))

ProcessRead(st, lines) ==
    IF st.fn = "BaseAgent.run" THEN RunLines(st, lines) ELSE ClientLines(st, lines)

\* what the function resolves with once the reader reports done
StreamResult(st) ==
    IF st.fn = "BaseAgent.run" THEN [text |-> st.fullText]
    ELSE [content |-> st.fullText, finish_reason |-> "stop"]

\* the reads the transport can deliver next: the tail of the line it cut, or
\* the next one or two lines, or the next line cut in two
TransportReads(st) ==
    IF st.cut
    THEN {[lines |-> <<TailOfLine>>, taken |-> 1, cut |-> FALSE]}
    ELSE {[lines |-> SubSeq(st.frames, 1, n), taken |-> n, cut |-> FALSE]
             : n \in 1..Min(2, Len(st.frames))}
         \cup {[lines |-> <<HeadOfLine>>, taken |-> 0, cut |-> TRUE]
                 : n \in 1..Min(1, Len(st.frames))}

\* the function is called: without an API key it throws, otherwise it awaits
\* fetch
StreamingCall ==
    /\ stream.pc = "idle"
    /\ stream' = IF stream.apiKey THEN [stream EXCEPT !.pc = "fetch"]
                 ELSE [stream EXCEPT !.pc = "thrown"]
    /\ UNCHANGED besidesStream

\* fetch settles: it rejects, or the response is not ok (both throw), or the
\* reader is taken and the first read awaited
FetchSettles(outcome) ==
    /\ stream.pc = "fetch"
    /\ stream' = IF outcome = "ok" THEN [stream EXCEPT !.pc = "read"]
                 ELSE [stream EXCEPT !.pc = "thrown"]
    /\ UNCHANGED besidesStream

\* reader.read() resolves with a value: its lines are processed and the next
\* read is awaited
ReadSettles(rd) ==
    /\ stream.pc = "read"
    /\ rd \in TransportReads(stream)
    /\ stream' = [ProcessRead(stream, rd.lines) EXCEPT
                     !.frames = SubSeq(@, rd.taken + 1, Len(@)),
                     !.cut = rd.cut,
                     !.delivered = @ \o SubSeq(stream.frames, 1, rd.taken)]
    /\ UNCHANGED besidesStream

\* reader.read() resolves with done: the loop is left and the function
\* returns
ReadDone ==
    /\ stream.pc = "read"
    /\ stream.frames = <<>>
    /\ ~stream.cut
    /\ stream' = [f \in DOMAIN stream \cup {"result"} |->
                    IF f = "result" THEN StreamResult(stream)
                    ELSE IF f = "pc" THEN "returned" ELSE stream[f]]
    /\ UNCHANGED besidesStream

\* reader.read() rejects: nothing catches it
ReadRejects ==
    /\ stream.pc = "read"
    /\ stream' = [stream EXCEPT !.pc = "thrown"]
    /\ UNCHANGED besidesStream

(* --------------------------- runFullPipeline -------------------------- *)
(* AgentRunner.runFullPipeline (src/agents/runner.ts) awaits the architect *)
(* (runAndParse), the writer and the designer in turn.  A model's text is   *)
(* described by what the parsers make of it: JSON.parse of the whole text,  *)
(* and the two patterns of extractJsonFromText (src/unnamed/part_001).      *)
ModelText(whole, braces, fence) == [whole |-> whole, braces |-> braces, fence |-> fence]

\* `{"pages":[]}`
PureJson == ModelText("object", "object", "no match")
\* `Here is the plan: {"pages":[]} I hope it helps.`
JsonInProse == ModelText("SyntaxError", "object", "no match")
\* a ```json block holding `[1, 2]`
FencedArray == ModelText("SyntaxError", "no match", "array")
\* `{"a":1} and {"b":2}`: the greedy pattern spans both objects
TwoObjects == ModelText("SyntaxError", "SyntaxError", "no match")
\* `I cannot help with that.`
NoJson == ModelText("SyntaxError", "no match", "no match")
ModelTexts == {PureJson, JsonInProse, FencedArray, TwoObjects, NoJson}

\* extractJsonFromText: the first pattern that matches decides; a match that
\* does not parse gives null, and so does no match at all
extractJsonFromText(text) ==
    IF text.braces # "no match"
    THEN (IF text.braces = "SyntaxError" THEN "null" ELSE text.braces)
    ELSE IF text.fence # "no match"
    THEN (IF text.fence = "SyntaxError" THEN "null" ELSE text.fence)
    ELSE "null"

\* WebsiteArchitectAgent.runAndParse: JSON.parse of the whole text, undefined
\* when it throws
runAndParse(text) ==
    [text |-> text,
     architecture |-> IF text.whole = "SyntaxError" THEN "undefined" ELSE text.whole]

\* what an awaited agent.run() settles with
RunOutcomes ==
    {[thrown |-> TRUE]} \cup {[thrown |-> FALSE, text |-> t] : t \in ModelTexts}

NoFullPipeline == [pc |-> "none"]
NewFullPipeline == [pc |-> "idle", data |-> <<>>]

\* context.data[key] = value
\* variant for comparison: the entry replaces the data stored so far
SetData_Replace(fp, key, value) == [fp EXCEPT !.data = (key :> value)]

\* this.context.data[key] = value
SetData(fp, key, value) == [fp EXCEPT !.data = (key :> value) @@ @]

\* runFullPipeline is called: the architect is awaited
RunFullPipeline ==
    /\ fullPipeline.pc = "idle"
    /\ fullPipeline' = [fullPipeline EXCEPT !.pc = "architecture"]
    /\ UNCHANGED besidesFullPipeline

\* await this.architect.runAndParse(...) settles: the text is stored, the
\* architecture only if there is one, and the writer is awaited
ArchitectSettles(outcome) ==
    /\ fullPipeline.pc = "architecture"
    /\ fullPipeline' =
          IF outcome.thrown THEN [fullPipeline EXCEPT !.pc = "thrown"]
          ELSE LET archRes == runAndParse(outcome.text)
                   stored  == SetData(fullPipeline, "architectureText", archRes.text)
               IN  [(IF archRes.architecture # "undefined"
                     THEN SetData(stored, "architecture", archRes.architecture)
                     ELSE stored) EXCEPT !.pc = "content"]
    /\ UNCHANGED besidesFullPipeline

\* await this.writer.run(...) settles
WriterSettles(outcome) ==
    /\ fullPipeline.pc = "content"
    /\ fullPipeline' =
          IF outcome.thrown THEN [fullPipeline EXCEPT !.pc = "thrown"]
          ELSE [SetData(fullPipeline, "copyText", outcome.text) EXCEPT !.pc = "layout"]
    /\ UNCHANGED besidesFullPipeline

\* await this.designer.run(...) settles: the context is returned
DesignerSettles(outcome) ==
    /\ fullPipeline.pc = "layout"
    /\ fullPipeline' =
          IF outcome.thrown THEN [fullPipeline EXCEPT !.pc = "thrown"]
          ELSE [SetData(fullPipeline, "layoutText", outcome.text) EXCEPT !.pc = "returned"]
    /\ UNCHANGED besidesFullPipeline

(* ----------------------------- TokenTracker --------------------------- *)
(* Two classes named TokenTracker exist: src/lib/agents.ts (used by        *)
(* AgentRunner.runAgent) and src/utils/safe.ts (with a pricing table).     *)
(* record() has no await, so it runs to its end once entered; the runs that *)
(* call it interleave at their awaits.                                     *)
TrackerKinds == {"lib/agents", "utils/safe"}

\* a model of the pricing table of utils/safe, and the default model of the
\* agents, which the table does not list
TrackedModels == {"gpt-4o", "anthropic/claude-3-sonnet"}
PricedModels == {"gpt-4o"}

\* costPer1kTokens of a priced model, in thousandths of a dollar
CostPer1kTokens(model) == IF model = "gpt-4o" THEN 15 ELSE 0

\* what a completion reports
TokenUsages ==
    {[prompt |-> p, completion |-> c, total |-> p + c] : p, c \in 0..MaxTokens}

ZeroUsage == [prompt |-> 0, completion |-> 0, total |-> 0, cost |-> 0]

AddUsage_Overwrite(current, usage, cost) ==
    [prompt |-> usage.prompt, completion |-> usage.completion,
     total |-> usage.total, cost |-> cost]

\* current.prompt += usage.prompt, and so on
AddUsage(current, usage, cost) ==
    [prompt |-> current.prompt + usage.prompt,
     completion |-> current.completion + usage.completion,
     total |-> current.total + usage.total,
     cost |-> current.cost + cost]

\* this.usage.get(model) || { prompt: 0, ... }
CurrentUsage(usage, model) ==
    IF model \in DOMAIN usage THEN usage[model] ELSE ZeroUsage

\* does record() store the usage: utils/safe returns early for a model that
\* is not in its pricing table
Stores(kind, model) == kind = "lib/agents" \/ model \in PricedModels

\* TokenTracker.record: the usage map afterwards (lib/agents keeps no cost)
record(kind, usage, model, reported) ==
    IF ~Stores(kind, model) THEN usage
    ELSE LET cost == IF kind = "utils/safe"
                     THEN reported.total * CostPer1kTokens(model)
                     ELSE 0
         IN  (model :> AddUsage(CurrentUsage(usage, model), reported, cost)) @@ usage

\* TokenTracker.getTotal: the sum over the models of the map
RECURSIVE SumUsage(_, _)
SumUsage(usage, models) ==
    IF models = {} THEN ZeroUsage
    ELSE LET m == CHOOSE m \in models : TRUE
             rest == SumUsage(usage, models \ {m})
         IN  [prompt |-> rest.prompt + usage[m].prompt,
              completion |-> rest.completion + usage[m].completion,
              total |-> rest.total + usage[m].total,
              cost |-> rest.cost + usage[m].cost]

getTotal(usage) == SumUsage(usage, DOMAIN usage)

NoTracker == [kind |-> "none"]
NewTracker(kind) ==
    [kind |-> kind, usage |-> <<>>,
     runs |-> [r \in 1..MaxRuns |-> [pc |-> "idle"]]]

\* runAgent(agent, ...) is called and awaits the completion
RunAgent(r, model) ==
    /\ tracker.kind # "none"
    /\ tracker.runs[r].pc = "idle"
    /\ tracker' = [tracker EXCEPT !.runs[r] = [pc |-> "awaiting", model |-> model]]
    /\ UNCHANGED besidesTracker

\* the awaited completion of run r settles: with content, its usage is
\* recorded and the result returned; without, the catch block returns
RunAgentResumes(r, outcome) ==
    /\ tracker.kind # "none"
    /\ tracker.runs[r].pc = "awaiting"
    /\ LET model == tracker.runs[r].model
       IN  tracker' =
             IF outcome.content
             THEN [tracker EXCEPT
                     !.usage = record(tracker.kind, @, model, outcome.usage),
                     !.runs[r] = [pc |-> "returned", model |-> model,
                                  success |-> TRUE, tokenUsage |-> outcome.usage]]
             ELSE [tracker EXCEPT
                     !.runs[r] = [pc |-> "returned", model |-> model,
                                  success |-> FALSE]]
    /\ UNCHANGED besidesTracker

CompletionOutcomes ==
    {[content |-> FALSE]} \cup {[content |-> TRUE, usage |-> u] : u \in TokenUsages}

(* ---------------- the agentRunner singleton's context ----------------- *)
(* src/unnamed/part_006 exports one AgentRunner, agentRunner, whose agents *)
(* are built once in its constructor.  setContext stores the context in    *)
(* each of them; an agent reads this.context when executeWithOpenRouter    *)
(* starts and again after its awaited completion (base-agent.ts:61, 98).   *)
(* A request sets its context and starts an agent in one synchronous       *)
(* stretch, and resumes when the completion settles.                       *)
Requests == 1..MaxRuns

\* the AgentContext a request builds for itself
ContextOf(r) == [sessionId |-> r]
\* BaseAgent.context before any setContext
NoContext == [sessionId |-> 0]

\* BaseAgent.setContext
setContext(agent, context) == context

\* AgentRunner.setContext: for (const agent of this.agents.values())
setContextOfAll(agents, context) ==
    [a \in DOMAIN agents |-> setContext(agents[a], context)]

NewRequest == [pc |-> "idle", k |-> 0, agentName |-> "none", reads |-> <<>>]

\* the module-level singleton: new AgentRunner()
NewAgentContext ==
    [context |-> [a \in Registered |-> NoContext],
     requests |-> [r \in Requests |-> NewRequest]]

NoAgentContext ==
    [context |-> [a \in Registered |-> NoContext],
     requests |-> [r \in Requests |-> [NewRequest EXCEPT !.pc = "none"]]]

\* agentRunner.setContext(context); agentRunner.runAgent(agentName, input)
\* up to the await of the completion in executeWithOpenRouter
SetContextAndRunAgent(r, agentName) ==
    /\ agentContext.requests[r].pc \in {"idle", "returned"}
    /\ agentContext.requests[r].k < MaxSteps
    /\ LET context == setContextOfAll(agentContext.context, ContextOf(r))
       IN  agentContext' =
             [agentContext EXCEPT
                !.context = context,
                !.requests[r] =
                    [pc |-> "awaiting", k |-> @.k, agentName |-> agentName,
                     \* this.context?.sessionId, onPreProcess(messages, this.context)
                     reads |-> Append(@.reads, context[agentName])]]
    /\ UNCHANGED besidesAgentContext

\* the completion settles: onPostProcess(result, this.context), return
ExecuteResumes(r) ==
    /\ agentContext.requests[r].pc = "awaiting"
    /\ agentContext' =
         [agentContext EXCEPT
            !.requests[r] =
                [pc |-> "returned", k |-> @.k + 1, agentName |-> @.agentName,
                 reads |-> Append(@.reads, agentContext.context[@.agentName])]]
    /\ UNCHANGED besidesAgentContext

(* --------------------------- DeploymentQueue -------------------------- *)
(* src/lib/builder/builder-engine.ts.  The queue lives on the main thread; *)
(* each building job has a Worker.  One action is one handler of the main  *)
(* thread: addJob, cancelJob up to its await, a worker's message, error or *)
(* exit event, the timer set by the exit handler, the cleanup timer.       *)
(* worker.terminate() is fulfilled when the worker's 'exit' event is       *)
(* emitted, so the rest of cancelJob runs right after the exit handler     *)
(* that processQueue registered, before any other event.                   *)
maxConcurrent == 2

JobStatuses == {"pending", "building", "deploying", "success", "failed", "cancelled"}

\* what a worker posts: reportStatus(...), then 'completed' or 'failed'
WorkerMessages ==
    {[type |-> "status", status |-> st] : st \in {"building", "success", "failed"}}
    \cup {[type |-> "completed"], [type |-> "failed"]}

\* new DeploymentQueue()
NewDeploymentQueue ==
    [queue |-> <<>>, processing |-> {}, activeCount |-> 0,
     workers |-> {}, terminating |-> <<>>, timers |-> 0, added |-> 0,
     cancelled |-> 0]

NoDeploymentQueue == [NewDeploymentQueue EXCEPT !.added = -1]

\* the first of these positions of the queue, 0 if there is none
FirstOf(found) ==
    IF found = {} THEN 0 ELSE CHOOSE i \in found : \A k \in found : i <= k

\* getJob: this.queue.find(job => job.id === jobId)
getJob(q, jobId) == FirstOf({i \in DOMAIN q.queue : q.queue[i].id = jobId})

\* this.queue.find(job => job.status === 'pending')
FirstPending(q) == FirstOf({i \in DOMAIN q.queue : q.queue[i].status = "pending"})

SetStatus(q, jobId, status) ==
    LET i == getJob(q, jobId)
    IN  IF i = 0 THEN q ELSE [q EXCEPT !.queue[i].status = status]

\* processQueue: start a worker for the first pending job if there is room
processQueue(q) ==
    IF q.activeCount >= maxConcurrent THEN q
    ELSE LET i == FirstPending(q)
         IN  IF i = 0 THEN q
             ELSE [q EXCEPT !.activeCount = @ + 1,
                            !.queue[i].status = "building",
                            !.workers = @ \cup {q.queue[i].id},
                            !.processing = @ \cup {q.queue[i].id}]

\* handleWorkerMessage (progress and log messages leave the status alone)
handleWorkerMessage(q, jobId, message) ==
    CASE message.type = "status" -> SetStatus(q, jobId, message.status)
      [] message.type = "completed" -> SetStatus(q, jobId, "success")
      [] message.type = "failed" -> SetStatus(q, jobId, "failed")

\* handleJobError
handleJobError(q, jobId) == SetStatus(q, jobId, "failed")

\* cancelJob after worker.terminate() is fulfilled
cancelJobWithWorker(q, jobId) ==
    [q EXCEPT !.processing = @ \ {jobId}, !.activeCount = @ - 1]

\* cancelJob from getJob on: mark the job, look for work
cancelJobStatus(q, jobId) ==
    LET i == getJob(q, jobId)
    IN  processQueue(IF i # 0 /\ q.queue[i].status \in {"pending", "building"}
                     THEN SetStatus(q, jobId, "cancelled")
                     ELSE q)

\* the cancelJob calls awaiting this worker's termination resume, in order
RECURSIVE ResumeCancels(_, _, _)
ResumeCancels(q, jobId, n) ==
    IF n = 0 THEN q
    ELSE ResumeCancels(cancelJobStatus(cancelJobWithWorker(q, jobId), jobId),
                       jobId, n - 1)

Awaiting(q, jobId) ==
    Cardinality({k \in DOMAIN q.terminating : q.terminating[k] = jobId})

\* addJob: queue.push(job); processQueue()
AddJob ==
    /\ deploymentQueue.added \in 0..(MaxJobs - 1)
    /\ LET id == deploymentQueue.added + 1
       IN  deploymentQueue' =
             processQueue([deploymentQueue EXCEPT
                             !.added = id,
                             !.queue = Append(@, [id |-> id, status |-> "pending"])])
    /\ UNCHANGED besidesDeploymentQueue

\* variant for comparison: cancelJob does not wait for the worker to stop
CancelJob_NoAwait(jobId) ==
    /\ deploymentQueue.added >= jobId
    /\ deploymentQueue.cancelled < MaxCancels
    /\ deploymentQueue' =
         cancelJobStatus([deploymentQueue EXCEPT !.cancelled = @ + 1], jobId)
    /\ UNCHANGED besidesDeploymentQueue

\* cancelJob(jobId): with a worker up to the await of terminate(), without
\* one to its end
CancelJob(jobId) ==
    /\ deploymentQueue.added >= jobId
    /\ deploymentQueue.cancelled < MaxCancels
    /\ deploymentQueue' =
         IF jobId \in deploymentQueue.processing
         THEN [deploymentQueue EXCEPT !.terminating = Append(@, jobId),
                                      !.cancelled = @ + 1]
         ELSE cancelJobStatus([deploymentQueue EXCEPT !.cancelled = @ + 1], jobId)
    /\ UNCHANGED besidesDeploymentQueue

\* worker.on('message')
WorkerMessage(jobId, message) ==
    /\ jobId \in deploymentQueue.workers
    /\ deploymentQueue' = handleWorkerMessage(deploymentQueue, jobId, message)
    /\ deploymentQueue' # deploymentQueue
    /\ UNCHANGED besidesDeploymentQueue

\* worker.on('error')
WorkerError(jobId) ==
    /\ jobId \in deploymentQueue.workers
    /\ deploymentQueue' = handleJobError(deploymentQueue, jobId)
    /\ deploymentQueue' # deploymentQueue
    /\ UNCHANGED besidesDeploymentQueue

\* worker.on('exit'), then the cancelJob calls that awaited the termination;
\* a terminated worker exits with code 1
WorkerExit(jobId, code) ==
    /\ jobId \in deploymentQueue.workers
    /\ Awaiting(deploymentQueue, jobId) > 0 => code = 1
    /\ LET exited == [deploymentQueue EXCEPT
                         !.workers = @ \ {jobId},
                         !.processing = @ \ {jobId},
                         !.activeCount = @ - 1,
                         !.timers = @ + 1]
           handled == IF code # 0 THEN handleJobError(exited, jobId) ELSE exited
           resumed == ResumeCancels(handled, jobId, Awaiting(deploymentQueue, jobId))
       IN  deploymentQueue' =
             [resumed EXCEPT !.terminating = SelectSeq(@, LAMBDA id : id # jobId)]
    /\ UNCHANGED besidesDeploymentQueue

\* setTimeout(() => this.processQueue(), 1000) fires
ProcessQueueTimer ==
    /\ deploymentQueue.added >= 0
    /\ deploymentQueue.timers > 0
    /\ deploymentQueue' = processQueue([deploymentQueue EXCEPT !.timers = @ - 1])
    /\ UNCHANGED besidesDeploymentQueue

\* the cleanup timer: the jobs added first are older than maxAge
Cleanup(old) ==
    /\ deploymentQueue.added >= old
    /\ deploymentQueue' =
         [deploymentQueue EXCEPT
            !.queue = SelectSeq(@, LAMBDA job :
                         job.id > old \/ job.status \in {"pending", "building"})]
    /\ deploymentQueue' # deploymentQueue
    /\ UNCHANGED besidesDeploymentQueue

(* ----------------------------- ExportWorker --------------------------- *)
(* src/lib/export-manager.ts.  One action is one handler on the main       *)
(* thread: startExportJob, cancelExportJob up to its await, a worker's     *)
(* error or exit event.  An uncaught exception in a worker emits 'error'   *)
(* and then 'exit' with code 1.  cleanup() runs when the process is        *)
(* shutting down and is left out.                                          *)
maxConcurrentJobs == 3

\* new ExportWorker(); threads are the worker threads that have not exited
NewExportWorker ==
    [workers |-> {}, activeJobs |-> 0, threads |-> <<>>, terminating |-> <<>>,
     started |-> 0, cancelled |-> 0]

NoExportWorker == [NewExportWorker EXCEPT !.started = -1]

\* this.workers.delete(jobId); this.activeJobs--
ReleaseJob(w, jobId) == [w EXCEPT !.workers = @ \ {jobId}, !.activeJobs = @ - 1]

RECURSIVE ReleaseJobs(_, _, _)
ReleaseJobs(w, jobId, n) ==
    IF n = 0 THEN w ELSE ReleaseJobs(ReleaseJob(w, jobId), jobId, n - 1)

ExportAwaiting(w, jobId) ==
    Cardinality({k \in DOMAIN w.terminating : w.terminating[k] = jobId})

\* startExportJob: throws when activeJobs >= maxConcurrentJobs, else starts
\* a worker for the job
StartExportJob ==
    /\ exportWorker.started \in 0..(MaxJobs - 1)
    /\ exportWorker.activeJobs < maxConcurrentJobs
    /\ LET id == exportWorker.started + 1
       IN  exportWorker' =
             [exportWorker EXCEPT !.started = id,
                                  !.workers = @ \cup {id},
                                  !.activeJobs = @ + 1,
                                  !.threads = (id :> "running") @@ @]
    /\ UNCHANGED besidesExportWorker

\* worker.on('error')
ExportWorkerError(jobId) ==
    /\ jobId \in DOMAIN exportWorker.threads
    /\ exportWorker.threads[jobId] = "running"
    /\ exportWorker' =
         [ReleaseJob(exportWorker, jobId) EXCEPT !.threads[jobId] = "errored"]
    /\ UNCHANGED besidesExportWorker

\* worker.on('exit'), then the cancelExportJob calls that awaited terminate()
ExportWorkerExit(jobId, code) ==
    /\ jobId \in DOMAIN exportWorker.threads
    /\ (exportWorker.threads[jobId] = "errored"
          \/ ExportAwaiting(exportWorker, jobId) > 0) => code = 1
    /\ LET exited == ReleaseJob(exportWorker, jobId)
           resumed == ReleaseJobs(exited, jobId, ExportAwaiting(exportWorker, jobId))
       IN  exportWorker' =
             [resumed EXCEPT
                !.threads = [j \in DOMAIN @ \ {jobId} |-> @[j]],
                !.terminating = SelectSeq(@, LAMBDA id : id # jobId)]
    /\ UNCHANGED besidesExportWorker

\* cancelExportJob(jobId) up to the await of worker.terminate(); without a
\* worker for the job it does nothing
CancelExportJob(jobId) ==
    /\ exportWorker.started >= jobId
    /\ exportWorker.cancelled < MaxCancels
    /\ jobId \in exportWorker.workers
    /\ exportWorker' = [exportWorker EXCEPT !.terminating = Append(@, jobId),
                                            !.cancelled = @ + 1]
    /\ UNCHANGED besidesExportWorker

(* ------------------------ BYOK usage limits --------------------------- *)
(* BaseAgentClass.callAI (src/lib/security.ts) asks BYOKManager            *)
(* (src/lib/byok-manager.ts) whether the month's usage leaves room for     *)
(* config.maxTokens, awaits the completion and then has trackUsage store   *)
(* a usageTracking row.  Calls interleave at their awaits.  The cost limit *)
(* is taken to be out of reach, and the provider to use no more tokens     *)
(* than the call asked leave for.                                          *)
Callers == 1..MaxRuns

RECURSIVE SumTokensUsed(_)
\* usage.reduce((sum, u) => sum + u.tokensUsed, 0)
SumTokensUsed(usage) ==
    IF usage = <<>> THEN 0 ELSE Head(usage).tokensUsed + SumTokensUsed(Tail(usage))

\* checkUsageLimits with the rows findMany returned
checkUsageLimits(monthlyTokenLimit, usage, tokensRequested) ==
    LET remainingTokens == monthlyTokenLimit - SumTokensUsed(usage)
    IN  [allowed |-> remainingTokens >= tokensRequested,
         remainingTokens |-> remainingTokens]

\* trackUsage: prisma.usageTracking.create
trackUsage(usageTracking, tokensUsed, success) ==
    Append(usageTracking, [tokensUsed |-> tokensUsed, success |-> success])

NewCaller == [pc |-> "idle", maxTokens |-> 0]

\* the usageTracking table of one user and workspace in one month, their
\* BYOK configuration, and the calls of callAI made for them
NewByok(monthlyTokenLimit) ==
    [monthlyTokenLimit |-> monthlyTokenLimit, usageTracking |-> <<>>,
     calls |-> [c \in Callers |-> NewCaller]]

NoByok == [monthlyTokenLimit |-> 0, usageTracking |-> <<>>,
           calls |-> [c \in Callers |-> [NewCaller EXCEPT !.pc = "none"]]]

\* callAI(prompt) of an agent configured with maxTokens, up to the query of
\* the month's usage in checkUsageLimits
CallAI(c, maxTokens) ==
    /\ byok.calls[c].pc \in {"idle", "returned", "thrown"}
    /\ Len(byok.usageTracking) < MaxRows
    /\ byok' = [byok EXCEPT !.calls[c] = [pc |-> "checking", maxTokens |-> maxTokens]]
    /\ UNCHANGED besidesByok

\* findMany resolves: the limit is checked against the rows stored by now;
\* a refused call throws, an allowed one awaits the completion
UsageQueried(c) ==
    /\ byok.calls[c].pc = "checking"
    /\ LET usageCheck == checkUsageLimits(byok.monthlyTokenLimit, byok.usageTracking,
                                          byok.calls[c].maxTokens)
       IN  byok' = [byok EXCEPT !.calls[c].pc =
                        IF usageCheck.allowed THEN "fetching" ELSE "thrown"]
    /\ UNCHANGED besidesByok

\* the completion settles with usage.total_tokens, or fails: the row is stored
CompletionSettles(c, ok, tokensUsed) ==
    /\ byok.calls[c].pc = "fetching"
    /\ tokensUsed <= byok.calls[c].maxTokens
    /\ ~ ok => tokensUsed = 0
    /\ byok' = [byok EXCEPT
                  !.usageTracking = trackUsage(@, tokensUsed, ok),
                  !.calls[c].pc = IF ok THEN "returned" ELSE "thrown"]
    /\ UNCHANGED besidesByok

(* ------------------------------ rateLimit ----------------------------- *)
(* rateLimit of src/lib/security.ts keeps one bucket {count, ts} for each  *)
(* identifier.  The model follows one identifier that is always called     *)
(* with the same windowMs and limit; time is Date.now() in milliseconds,   *)
(* and allowed lists the times of the calls that returned true.            *)
NoBucket == [count |-> 0, ts |-> -1]

NewRequestBuckets(windowMs, limit) ==
    [bucket |-> NoBucket, now |-> 0, windowMs |-> windowMs, limit |-> limit,
     allowed |-> <<>>, calls |-> 0]

NoRequestBuckets == [NewRequestBuckets(0, 0) EXCEPT !.now = -1]

\* rateLimit(identifier, windowMs, limit) at time now: the bucket it leaves
\* and the value it returns
rateLimit(bucket, now, windowMs, limit) ==
    IF bucket = NoBucket
    THEN [bucket |-> [count |-> 1, ts |-> now], result |-> TRUE]
    ELSE IF now - bucket.ts > windowMs
    THEN [bucket |-> [count |-> 1, ts |-> now], result |-> TRUE]
    ELSE IF bucket.count >= limit
    THEN [bucket |-> bucket, result |-> FALSE]
    ELSE [bucket |-> [bucket EXCEPT !.count = @ + 1], result |-> TRUE]

\* a call of rateLimit
RateLimit ==
    /\ requestBuckets.now >= 0
    /\ requestBuckets.calls < MaxCalls
    /\ LET r == rateLimit(requestBuckets.bucket, requestBuckets.now,
                          requestBuckets.windowMs, requestBuckets.limit)
       IN  requestBuckets' =
             [requestBuckets EXCEPT
                !.bucket = r.bucket,
                !.calls = @ + 1,
                !.allowed = IF r.result THEN Append(@, requestBuckets.now) ELSE @]
    /\ UNCHANGED besidesRateLimit

\* a millisecond passes
Tick ==
    /\ requestBuckets.now \in 0..(MaxTime - 1)
    /\ requestBuckets' = [requestBuckets EXCEPT !.now = @ + 1]
    /\ UNCHANGED besidesRateLimit

(* ---------------------------- useConcurrency -------------------------- *)
(* src/unnamed/part_026.  operations is React state: setOperations queues  *)
(* an updater that React applies when it renders the component again, and  *)
(* the callbacks of a render see the operations of that render.  Callers   *)
(* use the callbacks of the latest render.  One action is a call of        *)
(* withConcurrency up to its await, the settling of an asyncFn, a render.  *)
OperationKeys == {"generate", "save"}

\* the updater startOperation hands to setOperations
AddOperation(prev, key) == IF key \in prev THEN prev ELSE prev \cup {key}

\* the updater endOperation hands to setOperations
DeleteOperation(prev, key) == prev \ {key}

RECURSIVE ApplyUpdates(_, _)
\* React runs the queued updaters in order
ApplyUpdates(state, updates) ==
    IF updates = <<>> THEN state
    ELSE ApplyUpdates(IF Head(updates).add
                      THEN AddOperation(state, Head(updates).key)
                      ELSE DeleteOperation(state, Head(updates).key),
                      Tail(updates))

\* startOperation(key): the updater it queues and the value it returns
startOperation(c, key) ==
    [updates |-> Append(c.updates, [add |-> TRUE, key |-> key]),
     result |-> key \notin c.operations]

\* endOperation(key)
endOperation(c, key) == Append(c.updates, [add |-> FALSE, key |-> key])

\* the hook after the first render of its component
NewConcurrency ==
    [operations |-> {}, updates |-> <<>>, running |-> [key \in OperationKeys |-> 0],
     calls |-> 0, rejected |-> 0]

NoConcurrency == [NewConcurrency EXCEPT !.calls = -1]

\* withConcurrency(key, asyncFn): throws if startOperation returns false,
\* else calls asyncFn and awaits it
WithConcurrency(key) ==
    /\ concurrency.calls \in 0..(MaxOperations - 1)
    /\ LET started == startOperation(concurrency, key)
       IN  concurrency' =
             [concurrency EXCEPT
                !.calls = @ + 1,
                !.updates = started.updates,
                !.running[key] = IF started.result THEN @ + 1 ELSE @,
                !.rejected = IF started.result THEN @ ELSE @ + 1]
    /\ UNCHANGED besidesConcurrency

\* asyncFn settles: finally { endOperation(key) }
AsyncFnSettles(key) ==
    /\ concurrency.running[key] > 0
    /\ concurrency' = [concurrency EXCEPT !.running[key] = @ - 1,
                                          !.updates = endOperation(concurrency, key)]
    /\ UNCHANGED besidesConcurrency

\* React renders the component: the queued updaters are applied and the
\* callbacks are made anew over the resulting operations
Render ==
    /\ concurrency.updates # <<>>
    /\ concurrency' =
         [concurrency EXCEPT
            !.operations = ApplyUpdates(@, concurrency.updates),
            !.updates = <<>>]
    /\ UNCHANGED besidesConcurrency


(* --------------------------- specifications --------------------------- *)
\* the parts of the program a specification leaves alone stay as constructed
RetryIdle ==
    /\ retry = NoRetry
    /\ agentStep = NoStep

StreamIdle == stream = NoStream
FullPipelineIdle == fullPipeline = NoFullPipeline
TrackerIdle == tracker = NoTracker

AgentContextIdle == agentContext = NoAgentContext
DeploymentQueueIdle == deploymentQueue = NoDeploymentQueue
ExportWorkerIdle == exportWorker = NoExportWorker
ByokIdle == byok = NoByok
RateLimitIdle == requestBuckets = NoRequestBuckets
ConcurrencyIdle == concurrency = NoConcurrency
ServicesIdle ==
    /\ AgentContextIdle /\ DeploymentQueueIdle /\ ExportWorkerIdle
    /\ ByokIdle /\ RateLimitIdle /\ ConcurrencyIdle

GenerationIdle == RetryIdle /\ StreamIdle /\ FullPipelineIdle /\ TrackerIdle
ClientIdle == GenerationIdle /\ ServicesIdle

CoreIdle ==
    /\ execution = NewExecution(<<>>)
    /\ calls = <<>>
    /\ dispatch = "stub"
    /\ pipeline = NoPipeline
    /\ executionHistory = [a \in Registered |-> <<>>]

AgentLists ==
    UNION { [0..(n - 1) -> {NewAgent(m) : m \in 0..MaxRetries}] : n \in 0..MaxAgents }

NewCall == [pc |-> "idle", i |-> 0, input |-> <<>>]

\* the repository as written: getAgentInstance is a stub that throws; run() is
\* invoked up to MaxRuns times on the runner, also while an earlier call is
\* still suspended
Init ==
    /\ execution \in {NewExecution(a) : a \in AgentLists}
    /\ calls = [c \in 1..MaxRuns |-> NewCall]
    /\ dispatch = "stub"
    /\ pipeline = NoPipeline
    /\ executionHistory = [a \in Registered |-> <<>>]
    /\ ClientIdle

Next ==
    \/ \E c \in DOMAIN calls : Run(c)
    \/ \E c \in DOMAIN calls : BackoffElapsed(c)
    \/ Cancel

Spec == Init /\ [][Next]_vars

\* the same with the event loop doing its part: the timer of a retry back-off
\* fires, so a call of run() suspended on it is resumed
SpecFair ==
    /\ Spec
    /\ WF_vars(\E c \in DOMAIN calls : BackoffElapsed(c))

\* one run of a fresh runner whose getAgentInstance returns the concrete agent
\* (WebsiteArchitectAgent, ContentWriterAgent, ...) instead of throwing
InitAgents ==
    /\ execution \in {NewExecution(a) : a \in AgentLists}
    /\ calls = [c \in {1} |-> NewCall]
    /\ dispatch = "implemented"
    /\ pipeline = NoPipeline
    /\ executionHistory = [a \in Registered |-> <<>>]
    /\ ClientIdle

NextAgents ==
    \/ \E c \in DOMAIN calls : Run(c)
    \/ \E c \in DOMAIN calls, r \in ExecuteOutcomes : ExecuteReturns(c, r)
    \/ \E c \in DOMAIN calls : BackoffElapsed(c)
    \/ Cancel

SpecAgents == InitAgents /\ [][NextAgents]_vars

\* the same with every awaited step settling: agent.execute() returns or
\* throws, the back-off timer fires
SpecAgentsFair ==
    /\ SpecAgents
    /\ WF_vars(\E c \in DOMAIN calls : BackoffElapsed(c))
    /\ WF_vars(\E c \in DOMAIN calls, r \in ExecuteOutcomes : ExecuteReturns(c, r))

\* one call of runAgentPipeline on a fresh AgentRunner
PipelineArguments ==
    UNION { [1..n -> StepConfigs] : n \in 0..MaxSteps }

InitPipeline ==
    /\ pipeline \in {NewPipeline(steps) : steps \in PipelineArguments}
    /\ executionHistory = [a \in Registered |-> <<>>]
    /\ execution = NewExecution(<<>>)
    /\ calls = <<>>
    /\ dispatch = "stub"
    /\ ClientIdle

NextPipeline ==
    \/ RunAgentPipeline
    \/ \E outcome \in {"success", "failure", "caught", "not found"} :
          RunAgentSettles(outcome)

SpecPipeline == InitPipeline /\ [][NextPipeline]_vars

\* one call of a retry wrapper around an operation that may fail in any way
\* at every invocation
InitRetry ==
    /\ retry \in RetryCalls
    /\ agentStep = NoStep
    /\ StreamIdle /\ FullPipelineIdle /\ TrackerIdle /\ ServicesIdle
    /\ CoreIdle

NextRetry ==
    \/ CallWrapper
    \/ OperationResolves
    \/ \E error \in OperationErrors : OperationRejects(error)
    \/ DelayElapsed

SpecRetry == InitRetry /\ [][NextRetry]_vars

\* one call of executeWithOpenRouter: withRetry is called with its defaults
\* (maxRetries = env.AI_MAX_RETRIES)
InitStep ==
    /\ retry \in {NewRetry("withRetry", m, DefaultBaseDelay) : m \in 0..MaxWrapperRetries}
    /\ agentStep = [pc |-> "idle"]
    /\ StreamIdle /\ FullPipelineIdle /\ TrackerIdle /\ ServicesIdle
    /\ CoreIdle

NextStep ==
    \/ ExecuteWithOpenRouter
    \/ OperationResolves
    \/ \E error \in OperationErrors : OperationRejects(error)
    \/ DelayElapsed
    \/ TimeoutElapsed

SpecStep == InitStep /\ [][NextStep]_vars

\* one call of a streaming completion function, with onToken / onChunk given
InitStream ==
    /\ stream \in {NewStream(fn, apiKey, frames) :
                      fn \in StreamingFunctions, apiKey \in BOOLEAN,
                      frames \in ServerStreams}
    /\ RetryIdle /\ FullPipelineIdle /\ TrackerIdle /\ ServicesIdle
    /\ CoreIdle

NextStream ==
    \/ StreamingCall
    \/ \E outcome \in {"ok", "not ok", "rejects"} : FetchSettles(outcome)
    \/ \E rd \in TransportReads(stream) : ReadSettles(rd)
    \/ ReadDone
    \/ ReadRejects

SpecStream == InitStream /\ [][NextStream]_vars

\* one call of runFullPipeline
InitFullPipeline ==
    /\ fullPipeline = NewFullPipeline
    /\ RetryIdle /\ StreamIdle /\ TrackerIdle /\ ServicesIdle
    /\ CoreIdle

NextFullPipeline ==
    \/ RunFullPipeline
    \/ \E outcome \in RunOutcomes : ArchitectSettles(outcome)
    \/ \E outcome \in RunOutcomes : WriterSettles(outcome)
    \/ \E outcome \in RunOutcomes : DesignerSettles(outcome)

SpecFullPipeline == InitFullPipeline /\ [][NextFullPipeline]_vars

\* MaxRuns calls of runAgent on one runner, started and resumed in any order
InitTracker ==
    /\ tracker \in {NewTracker(kind) : kind \in TrackerKinds}
    /\ RetryIdle /\ StreamIdle /\ FullPipelineIdle /\ ServicesIdle
    /\ CoreIdle

NextTracker ==
    \/ \E r \in 1..MaxRuns, model \in TrackedModels : RunAgent(r, model)
    \/ \E r \in 1..MaxRuns, outcome \in CompletionOutcomes : RunAgentResumes(r, outcome)

SpecTracker == InitTracker /\ [][NextTracker]_vars

\* two requests share the agentRunner singleton
InitContext ==
    /\ CoreIdle /\ GenerationIdle
    /\ agentContext = NewAgentContext
    /\ DeploymentQueueIdle /\ ExportWorkerIdle /\ ByokIdle /\ RateLimitIdle
    /\ ConcurrencyIdle

NextContext ==
    \/ \E r \in Requests, a \in Registered : SetContextAndRunAgent(r, a)
    \/ \E r \in Requests : ExecuteResumes(r)

SpecContext == InitContext /\ [][NextContext]_vars

\* a DeploymentQueue, its callers and its workers
InitDeployment ==
    /\ CoreIdle /\ GenerationIdle
    /\ deploymentQueue = NewDeploymentQueue
    /\ AgentContextIdle /\ ExportWorkerIdle /\ ByokIdle /\ RateLimitIdle
    /\ ConcurrencyIdle

NextDeployment ==
    \/ AddJob
    \/ \E jobId \in 1..MaxJobs : CancelJob(jobId)
    \/ \E jobId \in 1..MaxJobs, message \in WorkerMessages : WorkerMessage(jobId, message)
    \/ \E jobId \in 1..MaxJobs : WorkerError(jobId)
    \/ \E jobId \in 1..MaxJobs, code \in {0, 1} : WorkerExit(jobId, code)
    \/ ProcessQueueTimer
    \/ \E old \in 1..MaxJobs : Cleanup(old)

SpecDeployment == InitDeployment /\ [][NextDeployment]_vars

\* an ExportWorker, its callers and its worker threads
InitExport ==
    /\ CoreIdle /\ GenerationIdle
    /\ exportWorker = NewExportWorker
    /\ AgentContextIdle /\ DeploymentQueueIdle /\ ByokIdle /\ RateLimitIdle
    /\ ConcurrencyIdle

NextExport ==
    \/ StartExportJob
    \/ \E jobId \in 1..MaxJobs : ExportWorkerError(jobId)
    \/ \E jobId \in 1..MaxJobs, code \in {0, 1} : ExportWorkerExit(jobId, code)
    \/ \E jobId \in 1..MaxJobs : CancelExportJob(jobId)

SpecExport == InitExport /\ [][NextExport]_vars

\* concurrent calls of callAI for one user and workspace
InitByok ==
    /\ CoreIdle /\ GenerationIdle
    /\ \E monthlyTokenLimit \in 1..MaxTokenLimit : byok = NewByok(monthlyTokenLimit)
    /\ AgentContextIdle /\ DeploymentQueueIdle /\ ExportWorkerIdle /\ RateLimitIdle
    /\ ConcurrencyIdle

NextByok ==
    \/ \E c \in Callers, maxTokens \in 1..MaxTokenLimit : CallAI(c, maxTokens)
    \/ \E c \in Callers : UsageQueried(c)
    \/ \E c \in Callers, ok \in BOOLEAN, tokensUsed \in 0..MaxTokenLimit :
          CompletionSettles(c, ok, tokensUsed)

SpecByok == InitByok /\ [][NextByok]_vars

\* calls of rateLimit for one identifier as time passes
InitRateLimit ==
    /\ CoreIdle /\ GenerationIdle
    /\ \E windowMs \in 1..MaxWindow, limit \in 1..MaxLimit :
          requestBuckets = NewRequestBuckets(windowMs, limit)
    /\ AgentContextIdle /\ DeploymentQueueIdle /\ ExportWorkerIdle /\ ByokIdle
    /\ ConcurrencyIdle

NextRateLimit ==
    \/ RateLimit
    \/ Tick

SpecRateLimit == InitRateLimit /\ [][NextRateLimit]_vars

\* a component using useConcurrency
InitConcurrency ==
    /\ CoreIdle /\ GenerationIdle
    /\ concurrency = NewConcurrency
    /\ AgentContextIdle /\ DeploymentQueueIdle /\ ExportWorkerIdle /\ ByokIdle
    /\ RateLimitIdle

NextConcurrency ==
    \/ \E key \in OperationKeys : WithConcurrency(key)
    \/ \E key \in OperationKeys : AsyncFnSettles(key)
    \/ Render

SpecConcurrency == InitConcurrency /\ [][NextConcurrency]_vars

TypeOK ==
    /\ execution.status \in Statuses
    /\ \A i \in DOMAIN execution.agents :
          execution.agents[i].status \in AgentStatuses
    /\ \A c \in DOMAIN calls : calls[c].pc \in {"idle", "execute", "backoff", "done"}
(* ------------------- observing one step of the runner ------------------ *)
Agents == DOMAIN execution.agents

\* the log entries pushed by the step being taken
NewLogs == SubSeq(execution'.logs, Len(execution.logs) + 1, Len(execution'.logs))

\* the step being taken starts / fails the agent at index i
StartedNow(i) ==
    \E k \in DOMAIN NewLogs : NewLogs[k].event = "agentStarted" /\ NewLogs[k].step = i
FailedNow(i) ==
    \E k \in DOMAIN NewLogs : NewLogs[k].event = "agentFailed" /\ NewLogs[k].step = i

\* a call of run() is suspended at an await
InFlight(c) == calls[c].pc \in {"execute", "backoff"}

\* every call of run() made so far has returned, and at least one was made
RunEnded ==
    /\ \E c \in DOMAIN calls : calls[c].pc = "done"
    /\ \A c \in DOMAIN calls : calls[c].pc \in {"idle", "done"}

\* the log has an entry of this kind
Logged(event) == \E k \in DOMAIN execution.logs : execution.logs[k].event = event

C2_CancelledWhenRunEnds ==
    [][(execution.status = "cancelled"
          /\ \E c \in DOMAIN calls : InFlight(c) /\ calls'[c].pc = "done")
        => execution'.status = "cancelled"]_vars

(* ------------------------------- C3 ----------------------------------- *)
\* C3: once the status is completed, failed or cancelled, no step changes it
\* and no further agent is started.
C3_TerminalAbsorbing ==
    [][execution.status \in Terminal =>
          /\ execution'.status = execution.status
          /\ \A i \in Agents : ~StartedNow(i)]_vars

NoAgentExecutionError ==
    \A i \in Agents :
       execution.agents[i].error \in {"none", "Agent instance not implemented"}

\* C7: a run in which no agent execution fails (and that is not cancelled)
\* ends completed, with a result recorded for every configured step.
C7_CompletesWithoutErrors ==
    (RunEnded /\ NoAgentExecutionError /\ ~Logged("cancelled"))
       => /\ execution.status = "completed"
          /\ DOMAIN execution.output = Agents

(* ------------------------------- C10 ---------------------------------- *)
\* the steps that have completed: by success, or by failure after the retries
StepsCompleted ==
    {i \in Agents : execution.agents[i].status \in {"completed", "failed"}}

\* C10: when a step has completed and the runner has settled, the number of
\* completed steps equals currentStep.
C10_HistoryMatchesCurrentStep ==
    RunEnded => Cardinality(StepsCompleted) = execution.currentStep
(* ------------------------------- C6 ----------------------------------- *)
\* the step being taken records a successful result for the agent at index i
CompletedNow(i) ==
    \E k \in DOMAIN NewLogs : NewLogs[k].event = "agentCompleted" /\ NewLogs[k].step = i

\* the successful results logged for the agent at index i
SuccessesOf(i) ==
    {k \in DOMAIN execution.logs :
        execution.logs[k].event = "agentCompleted" /\ execution.logs[k].step = i}

RECURSIVE SumTokens(_)
\* the sum of the token counts of the successful results in the log
SumTokens(logs) ==
    IF logs = <<>> THEN 0
    ELSE (IF Head(logs).event = "agentCompleted" THEN Head(logs).tokens ELSE 0)
         + SumTokens(Tail(logs))

RunnerOutputIsPrefix ==
    /\ \E n \in 0..NumAgents(execution) : DOMAIN execution.output = 0..(n - 1)
    /\ \A c \in DOMAIN calls :
          calls[c].pc = "execute" => \A j \in 0..(calls[c].i - 1) : j \in DOMAIN execution.output

OnlyTransportErrors ==
    \A n \in DOMAIN retry.thrown : retry.thrown[n].kind = "transport"

\* C11: an operation that fails with a transport error at every invocation is
\* invoked maxRetries + 1 times by the wrapper, neither fewer nor more, and
\* the wrapper then rejects with that error: while fewer invocations have been
\* made the wrapper is still running (in the operation or in its back-off).
C11_TransportRetriedToExhaustion ==
    (retry.pc \notin {"none", "idle"} /\ OnlyTransportErrors) =>
        /\ retry.invocations \in 1..(retry.maxRetries + 1)
        /\ retry.invocations = retry.attempt + 1
        /\ retry.pc = "thrown" =>
              /\ retry.invocations = retry.maxRetries + 1
              /\ Len(retry.thrown) = retry.maxRetries + 1
              /\ PropagatedError(retry) = TransportFailure
        /\ retry.pc = "delay" => retry.invocations <= retry.maxRetries

\* the wrapper has given up after three transport failures
C11_Witness ==
    /\ retry.pc = "thrown"
    /\ OnlyTransportErrors
    /\ retry.maxRetries = 2
    /\ retry.invocations = 3

\* the failures the wrapper is required not to retry
NoRetryKinds == {"auth", "validation", "client"}

\* C12 (as claimed): when the operation fails with an authentication error, a
\* validation error or a client (4xx) error, the wrapper does not invoke it
\* again and does not wait: that failure is the last one and the wrapper has
\* rejected.
C12_NonRetryablePropagatedAtOnce ==
    \A n \in DOMAIN retry.thrown :
        retry.thrown[n].kind \in NoRetryKinds =>
            /\ n = Len(retry.thrown)
            /\ retry.pc = "thrown"

\* the bound the policy puts on the delay after the failure of attempt k; a
\* wrapper without a maxDelay has the exponential term alone
SpecifiedBound(r, k) ==
    IF "maxDelay" \in DOMAIN r THEN Min(r.baseDelay * 2^k, r.maxDelay)
    ELSE r.baseDelay * 2^k

\* C14 (as claimed): the delay waited after the failure of attempt k (from 0)
\* never exceeds min(baseDelay * 2^k, maxDelay); the total time spent waiting
\* is then at most the sum of these bounds.
C14_BackoffWithinBound ==
    retry.pc # "none" =>
        \A n \in DOMAIN retry.delays :
            retry.delays[n] <= SpecifiedBound(retry, n - 1)

(* ---------------- claims about executeWithOpenRouter ------------------ *)
\* the step being taken settles the call with the time-out failure
TimesOutNow ==
    /\ agentStep.pc = "pending"
    /\ agentStep'.pc = "settled"
    /\ agentStep'.result = FailureResult(TimedOutMessage)

\* C13 (as claimed): the time-out bounds one attempt: when it expires while
\* retries remain, the attempt counts as failed and the operation is invoked
\* again; the time-out ends the call only when the attempt in flight is the
\* last one.
C13_TimeoutIsPerAttempt ==
    [][TimesOutNow =>
          \/ retry.attempt = retry.maxRetries
          \/ retry'.invocations = retry.invocations + 1]_vars

\* the operation failed with a provider error on its first two invocations and
\* resolved on the third, the wrapper allowing three retries
TwoProviderErrorsThenSuccess ==
    /\ retry.pc = "returned"
    /\ retry.maxRetries = 3
    /\ retry.thrown = <<ProviderFailure, ProviderFailure>>

\* C15 (as claimed): after provider errors on the first two attempts and a
\* success on the third, with maxRetries = 3, the step's result is successful
\* and carries retryCount = 2.
C15_RetryCountReported ==
    (agentStep.pc = "settled" /\ TwoProviderErrorsThenSuccess) =>
        /\ agentStep.result.success
        /\ "retryCount" \in DOMAIN agentStep.result
        /\ agentStep.result.retryCount = 2

(* --------------- claims about the streaming completions --------------- *)
\* C16 (as claimed): a step executor never throws past itself: a call of
\* BaseAgent.run does not reject, whatever fails is returned as a result
\* with success = false, error set and data = null.
C16_ExecutorNeverThrows ==
    (stream.pc # "none" /\ stream.fn = "BaseAgent.run") => stream.pc # "thrown"

\* C17 (as claimed): a streaming completion resolves with a result only if
\* the sentinel line `data: [DONE]` was received; a stream that ends without
\* it makes the call fail.
C17_NoResultWithoutSentinel ==
    stream.pc = "returned" =>
        \E n \in DOMAIN stream.delivered : stream.delivered[n] = DoneLine

\* the content fragments of the lines the transport has delivered, in order
IsContent(line) == line.payload.text = "json"
DeliveredFragments ==
    LET lines == SelectSeq(stream.delivered, IsContent)
    IN  [n \in DOMAIN lines |-> lines[n].payload.content]

RECURSIVE Concatenation(_)
Concatenation(texts) ==
    IF texts = <<>> THEN "" ELSE Head(texts) \o Concatenation(Tail(texts))

FinalText ==
    IF stream.fn = "BaseAgent.run" THEN stream.result.text
    ELSE stream.result.content

\* C18 (as claimed): the callback is invoked once per content fragment, in
\* arrival order, with the fragment and the concatenation of the fragments
\* received so far, and the text of the result is the concatenation of all
\* fragments.
C18_CallbackPerFragment ==
    stream.pc \in {"read", "returned"} =>
        /\ Len(stream.tokens) = Len(DeliveredFragments)
        /\ \A n \in DOMAIN stream.tokens :
              /\ stream.tokens[n].token = DeliveredFragments[n]
              /\ "fullText" \in DOMAIN stream.tokens[n]
              /\ stream.tokens[n].fullText =
                    Concatenation(SubSeq(DeliveredFragments, 1, n))
        /\ stream.pc = "returned" =>
              FinalText = Concatenation(DeliveredFragments)

(* ------------------- claims about runFullPipeline --------------------- *)
\* C19 (as claimed): when no JSON value can be extracted from the text of
\* the architecture step, the step fails and the pipeline does not go on: the
\* content step is started only with an architecture extracted from the text.
C19_NoStepAfterFailedExtraction ==
    fullPipeline.pc \in {"content", "layout", "returned"} =>
        extractJsonFromText(fullPipeline.data["architectureText"]) # "null"

(* --------------------- claims about TokenTracker ---------------------- *)
\* the runs whose usage record() has stored
StoredRuns ==
    {r \in DOMAIN tracker.runs :
        /\ tracker.runs[r].pc = "returned"
        /\ tracker.runs[r].success
        /\ Stores(tracker.kind, tracker.runs[r].model)}

RECURSIVE ReportedSum(_, _)
ReportedSum(rs, field) ==
    IF rs = {} THEN 0
    ELSE LET r == CHOOSE r \in rs : TRUE
         IN  tracker.runs[r].tokenUsage[field] + ReportedSum(rs \ {r}, field)

\* the cost of the stored usages at the prices of utils/safe (lib/agents keeps
\* no cost)
RECURSIVE ReportedCost(_)
ReportedCost(rs) ==
    IF rs = {} \/ tracker.kind = "lib/agents" THEN 0
    ELSE LET r == CHOOSE r \in rs : TRUE
         IN  tracker.runs[r].tokenUsage.total * CostPer1kTokens(tracker.runs[r].model)
                + ReportedCost(rs \ {r})

\* C20: the tracker loses no update: in whatever order the runs were started
\* and resumed, the totals of the tracker are the sums of the usages that were
\* recorded, over all models and for each model.
C20_TrackerTotalIsSum ==
    tracker.kind # "none" =>
        /\ \A field \in {"prompt", "completion", "total"} :
              /\ getTotal(tracker.usage)[field] = ReportedSum(StoredRuns, field)
              /\ \A m \in TrackedModels :
                    CurrentUsage(tracker.usage, m)[field] =
                       ReportedSum({r \in StoredRuns : tracker.runs[r].model = m}, field)
        /\ getTotal(tracker.usage).cost = ReportedCost(StoredRuns)
        /\ DOMAIN tracker.usage = {tracker.runs[r].model : r \in StoredRuns}

\* two runs were in flight together and have both recorded tokens for the
\* same model
C20_Witness ==
    /\ tracker.kind # "none"
    /\ \E r1, r2 \in StoredRuns :
          /\ r1 # r2
          /\ tracker.runs[r1].model = tracker.runs[r2].model
          /\ tracker.runs[r1].tokenUsage.total >= 1
          /\ tracker.runs[r2].tokenUsage.total >= 1
\* C21: a run's context is owned by that run alone: every context an agent
\* reads while it executes a step of a request is the context that request
\* set, never the context of a concurrent request.
C21_ContextOwnedByRun ==
    \A r \in Requests :
        \A i \in DOMAIN agentContext.requests[r].reads :
            agentContext.requests[r].reads[i] = ContextOf(r)

(* ------------------------------- C22 ---------------------------------- *)
\* the entries of context.data that a step of runFullPipeline stores
WrittenBy(pc) ==
    CASE pc = "architecture" -> {"architectureText", "architecture"}
      [] pc = "content" -> {"copyText"}
      [] pc = "layout" -> {"layoutText"}
      [] OTHER -> {}

\* runFullPipeline: every stored entry keeps its value, a new entry is one of
\* the step that has just settled
FullPipelineDataGrows ==
    fullPipeline.pc # "none" =>
        \A key \in DOMAIN fullPipeline.data \cup DOMAIN fullPipeline'.data :
            IF key \in DOMAIN fullPipeline.data
            THEN /\ key \in DOMAIN fullPipeline'.data
                 /\ fullPipeline'.data[key] = fullPipeline.data[key]
            ELSE key \in WrittenBy(fullPipeline.pc)

\* PipelineRunner.run: every stored output stays, no step records a success
\* for an index that has its output already, and a new output is keyed by the
\* index of the agent a call of run() has just executed
RunnerOutputGrows ==
    \A k \in DOMAIN execution.output \cup DOMAIN execution'.output :
        IF k \in DOMAIN execution.output
        THEN /\ k \in DOMAIN execution'.output
             /\ execution'.output[k] = execution.output[k]
             /\ ~ \E n \in DOMAIN NewLogs :
                    NewLogs[n].event = "agentCompleted" /\ NewLogs[n].step = k
        ELSE \E c \in DOMAIN calls : calls[c].pc = "execute" /\ calls[c].i = k

\* C22: a run's context grows monotonically: an entry is written only by the
\* step that it belongs to, and an entry that has been stored is neither
\* overwritten nor removed in any later step of the run.
C22_ContextGrowsMonotonically ==
    [][FullPipelineDataGrows /\ RunnerOutputGrows]_vars

\* a run of runFullPipeline has returned with the entries of its three steps
C22_Witness ==
    /\ fullPipeline.pc = "returned"
    /\ {"architectureText", "copyText", "layoutText"} \subseteq DOMAIN fullPipeline.data

(* ------------------------------- C23 ---------------------------------- *)
\* C23: a DeploymentQueue never has more than maxConcurrent workers alive,
\* whatever the order of addJob, cancelJob and the workers' exits.
C23_AtMostMaxConcurrentWorkers ==
    Cardinality(deploymentQueue.workers) <= maxConcurrent

(* ------------------------------- C24 ---------------------------------- *)
\* C24: once cancelJob has set a job's status to cancelled, no later step (a
\* worker's message, error or exit, another call) changes that status.
C24_CancelledIsFinal ==
    [][\A i \in DOMAIN deploymentQueue.queue :
          deploymentQueue.queue[i].status = "cancelled" =>
              \A k \in DOMAIN deploymentQueue'.queue :
                  deploymentQueue'.queue[k].id = deploymentQueue.queue[i].id =>
                      deploymentQueue'.queue[k].status = "cancelled"]_vars

\* a job is cancelled, and a job that was started after that (it is behind the
\* cancelled one in the queue) has had its worker fail or finish
C24_Witness ==
    \E i, k \in DOMAIN deploymentQueue.queue :
        /\ i < k
        /\ deploymentQueue.queue[i].status = "cancelled"
        /\ deploymentQueue.queue[k].status \in {"failed", "success"}
        /\ deploymentQueue.queue[k].id \notin deploymentQueue.workers

(* ------------------------------- C25 ---------------------------------- *)
\* C25: ExportWorker.activeJobs always equals the number of workers in its
\* worker map, so it is never negative and never above maxConcurrentJobs,
\* whatever the order of a worker's error, its exit and cancelExportJob.
C25_ActiveJobsIsWorkerCount ==
    /\ exportWorker.activeJobs = Cardinality(exportWorker.workers)
    /\ exportWorker.activeJobs >= 0
    /\ exportWorker.activeJobs <= maxConcurrentJobs

(* ------------------------------- C26 ---------------------------------- *)
\* C26: the tokens recorded for one user and workspace in a month never
\* exceed the monthly token limit, also when several calls run concurrently.
C26_RecordedWithinLimit ==
    SumTokensUsed(byok.usageTracking) <= byok.monthlyTokenLimit

(* ------------------------------- C27 ---------------------------------- *)
\* the calls that returned true at a time t with from <= t < from + windowMs
AllowedWithin(from) ==
    Cardinality({k \in DOMAIN requestBuckets.allowed :
                    /\ from <= requestBuckets.allowed[k]
                    /\ requestBuckets.allowed[k] < from + requestBuckets.windowMs})

\* C27: in any interval of length windowMs, rateLimit returns true for at
\* most limit calls with the same identifier.
C27_AtMostLimitPerInterval ==
    requestBuckets.now >= 0 =>
        \A from \in 0..requestBuckets.now : AllowedWithin(from) <= requestBuckets.limit

(* ------------------------------- C28 ---------------------------------- *)
\* C28: withConcurrency never has two async functions running for one key at
\* the same time: a call made while the first is running is rejected.
C28_OneRunningPerKey ==
    concurrency.calls >= 0 =>
        \A key \in OperationKeys : concurrency.running[key] <= 1

(* ------------------------------- C29 ---------------------------------- *)
\* runAgent has been called for the step at position k of the pipeline
StepExecuted(k) ==
    \/ pipeline.pc = "awaiting" /\ pipeline.k = k
    \/ \E i \in DOMAIN pipeline.results : pipeline.results[i].step = k
    \/ \E i \in DOMAIN pipeline.errors :
          pipeline.errors[i].step = k /\ pipeline.errors[i].kind # "depends on"

\* an earlier step of this call ran the agent and it succeeded
CompletedBefore(agentName, k) ==
    \E i \in DOMAIN pipeline.results :
        /\ pipeline.results[i].agent = agentName
        /\ pipeline.results[i].success
        /\ pipeline.results[i].step < k

\* C29: runAgentPipeline never executes a step whose dependsOn names an agent
\* that has not completed successfully earlier in the same call.
C29_DependenciesCompletedFirst ==
    \A k \in DOMAIN pipeline.steps :
        StepExecuted(k) =>
            \A dep \in pipeline.steps[k].dependsOn : CompletedBefore(dep, k)

\* a step that depends on an agent is being executed
C29_Witness ==
    /\ pipeline.pc = "awaiting"
    /\ pipeline.steps[pipeline.k].dependsOn # {}

(* ------------------------------- C30 ---------------------------------- *)
\* how often the agent at index i has been started, over all calls of run()
StartsOf(i) ==
    Cardinality({k \in DOMAIN execution.logs :
                    /\ execution.logs[k].event = "agentStarted"
                    /\ execution.logs[k].step = i})

\* the calls of run() made so far
StartedCalls == Cardinality({c \in DOMAIN calls : calls[c].pc # "idle"})

\* a call of run() returns in this step
ReturnsNow(c) == calls[c].pc # "done" /\ calls'[c].pc = "done"

\* the call of run() numbered c is suspended at an await / has returned
Suspended(c) == IF c \in DOMAIN calls THEN InFlight(c) ELSE FALSE
Returned(c) == IF c \in DOMAIN calls THEN calls[c].pc = "done" ELSE FALSE

\* C30: a call of run() always terminates, with the status completed or failed
\* when it returns, and has executed each agent at most maxRetries + 1 times:
\* every execution after a call's first one of an agent is a retry, and an
\* agent is retried at most maxRetries times.
C30_RunTerminates ==
    /\ [][\A c \in DOMAIN calls :
             ReturnsNow(c) => execution'.status \in {"completed", "failed"}]_vars
    /\ [](\A i \in Agents :
             /\ execution.agents[i].retryCount <= execution.agents[i].maxRetries
             /\ StartsOf(i) <= execution.agents[i].retryCount + StartedCalls)
    /\ \A c \in 1..MaxRuns : Suspended(c) ~> Returned(c)

\* a call of run() has returned after using up the retries of an agent
C30_Witness ==
    \E c \in DOMAIN calls, i \in Agents :
        /\ calls[c].pc = "done"
        /\ execution.agents[i].maxRetries > 0
        /\ execution.agents[i].retryCount = execution.agents[i].maxRetries
        /\ StartsOf(i) = execution.agents[i].maxRetries + 1

====
